---- MODULE Spec2Model ----
(***************************************************************************)
(* Model of src/network.py: NetworkDesignSystem (location registry,        *)
(* candidate links, union-find, budget-constrained Kruskal) together with  *)
(* Network.last_design, the slot the caller keeps the last result in.      *)
(*                                                                         *)
(* Numbers.  Coordinates are drawn from points whose pairwise distances    *)
(* are whole numbers (0, 3, 4, 5), so math.sqrt is exact on them and every *)
(* cost is an integer-valued float; reliability is kept in hundredths.     *)
(***************************************************************************)
EXTENDS Integers, Sequences, FiniteSets, TLC

\* ------------------------------------------------------------- bounds
Names == {"A", "B", "C"}
Coordinates == {<<0, 0>>, <<3, 0>>, <<3, 4>>}
LocationTypes == {"Office"}
DeviceCounts == {5}
MaxConnections == 3
MaxSolves == 2

\* --------------------------------------------------- program constants
DefaultBudget == 500000
FiberCostPerMeter == 100
FiberBandwidth == 10000
FiberReliability == 99
CopperCostPerMeter == 50
CopperBandwidth == 1000
CopperReliability == 95
InstallationRate == 20
BandwidthPerDevice == 100

CableTypes == {"fiber", "copper"}
\* The pairs candidates are built for: each unordered pair once, as the
\* nested loops of Network.generate_design enumerate them.
Pairs == {<<"A", "B">>, <<"A", "C">>, <<"B", "C">>}
Budgets == {0, 500, DefaultBudget}

VARIABLES
  locations,             \* self.locations: name -> record
  possible_connections,  \* self.possible_connections: list of candidate links
  parent,                \* self.parent
  rank,                  \* self.rank
  total_budget,          \* self.total_budget
  last_design,           \* Network.last_design: the last value returned
  pc,                    \* "idle", or "loop" inside design_optimal_network
  sorted_connections,    \* local of design_optimal_network
  idx,                   \* position of the for loop in sorted_connections
  optimal_design,        \* local
  total_cost,            \* local
  total_cable_length,    \* local
  fiber_connections,     \* local
  copper_connections,    \* local
  caller,                \* where the caller is: "setup", "solving", "solved"
                         \* (a solve returned, nothing called since),
                         \* "resolving" (in a solve begun right after one)
  nSolves                \* design_optimal_network calls so far

vars == <<locations, possible_connections, parent, rank, total_budget,
          last_design, pc, sorted_connections, idx, optimal_design,
          total_cost, total_cable_length, fiber_connections,
          copper_connections, caller, nSolves>>

sysvars == <<locations, possible_connections, parent, rank, total_budget>>
locals == <<sorted_connections, idx, optimal_design, total_cost,
            total_cable_length, fiber_connections, copper_connections>>

None == [none |-> TRUE]

\* ------------------------------------------------------ pure helpers
\* math.sqrt on a perfect square (all the squares Coordinates produce).
Sqrt(sq) == CHOOSE r \in 0..sq : r * r = sq

calculate_distance(coord1, coord2) ==
  Sqrt((coord1[1] - coord2[1]) * (coord1[1] - coord2[1])
       + (coord1[2] - coord2[2]) * (coord1[2] - coord2[2]))

cable_specs ==
  [fiber |-> [cost_per_meter |-> FiberCostPerMeter,
              bandwidth |-> FiberBandwidth,
              reliability |-> FiberReliability],
   copper |-> [cost_per_meter |-> CopperCostPerMeter,
               bandwidth |-> CopperBandwidth,
               reliability |-> CopperReliability]]

\* The dict add_possible_connection appends.
Connection(locs, loc1, loc2, cable_type) ==
  LET distance == calculate_distance(locs[loc1].coordinates,
                                     locs[loc2].coordinates)
      base_cost == distance * cable_specs[cable_type].cost_per_meter
      installation_cost == distance * InstallationRate
  IN [locations |-> <<loc1, loc2>>,
      distance |-> distance,
      cable_type |-> cable_type,
      cost |-> base_cost + installation_cost,
      bandwidth |-> cable_specs[cable_type].bandwidth,
      reliability |-> cable_specs[cable_type].reliability]

\* The dict add_location stores.
LocationRecord(name, location_type, devices_count, coordinates) ==
  [name |-> name,
   type |-> location_type,
   devices |-> devices_count,
   coordinates |-> coordinates,
   connections |-> <<>>,
   bandwidth_requirement |-> devices_count * BandwidthPerDevice]

\* m with m[k] = v, k added to the domain when new (a dict assignment).
Put(m, k, v) == [x \in (DOMAIN m) \cup {k} |-> IF x = k THEN v ELSE m[x]]

\* ---------------------------------------------------------- union-find
RECURSIVE FindRoot(_, _)
FindRoot(par, location) ==
  IF par[location] = location THEN location
  ELSE FindRoot(par, par[location])

RECURSIVE PathNodes(_, _)
PathNodes(par, location) ==
  IF par[location] = location THEN {}
  ELSE {location} \cup PathNodes(par, par[location])

\* self.parent after find_parent(location): the path is compressed.
find_parent(par, location) ==
  LET root == FindRoot(par, location)
      path == PathNodes(par, location)
  IN [n \in DOMAIN par |-> IF n \in path THEN root ELSE par[n]]

\* self.parent and self.rank after union_locations(loc1, loc2).
union_locations(par, rk, loc1, loc2) ==
  LET p2 == find_parent(find_parent(par, loc1), loc2)
      root1 == FindRoot(par, loc1)
      root2 == FindRoot(par, loc2)
  IN IF rk[root1] < rk[root2]
       THEN [parent |-> [p2 EXCEPT ![root1] = root2], rank |-> rk]
     ELSE IF rk[root1] > rk[root2]
       THEN [parent |-> [p2 EXCEPT ![root2] = root1], rank |-> rk]
     ELSE [parent |-> [p2 EXCEPT ![root2] = root1],
           rank |-> [rk EXCEPT ![root1] = rk[root1] + 1]]

\* ------------------------------------------------ sorted(key = cost)
\* Mutant of InsertByCost: an entry goes before those of equal cost.
RECURSIVE InsertBeforeEqual(_, _)
InsertBeforeEqual(s, c) ==
  IF s = <<>> THEN <<c>>
  ELSE IF s[Len(s)].cost < c.cost THEN Append(s, c)
  ELSE Append(InsertBeforeEqual(SubSeq(s, 1, Len(s) - 1), c), s[Len(s)])

\* The place of c in the sorted list s: after every entry that costs no more.
RECURSIVE InsertByCost(_, _)
InsertByCost(s, c) ==
  IF s = <<>> THEN <<c>>
  ELSE IF s[Len(s)].cost <= c.cost THEN Append(s, c)
  ELSE Append(InsertByCost(SubSeq(s, 1, Len(s) - 1), c), s[Len(s)])

\* Mutant of SortByCost: the list is scanned as inserted.
Unsorted(conns) == conns

\* sorted(conns, key=cost): a stable sort.
RECURSIVE SortByCost(_)
SortByCost(conns) ==
  IF conns = <<>> THEN <<>>
  ELSE InsertByCost(SortByCost(SubSeq(conns, 1, Len(conns) - 1)),
                    conns[Len(conns)])

\* ------------------------------------------- one pass of the for loop
\* Mutant of Affordable: the running total alone is held against the budget.
AffordableBeforeAdding(total, cost, budget) == total <= budget

\* The budget test of line 97.
Affordable(total, cost, budget) == total + cost <= budget

\* Mutant of Accept: the link is recorded at its first endpoint only.
AcceptOneEndpoint(st, connection) ==
  LET loc1 == connection.locations[1]
      loc2 == connection.locations[2]
      u == union_locations(st.parent, st.rank, loc1, loc2)
  IN [st EXCEPT !.parent = u.parent,
                !.rank = u.rank,
                !.locations[loc1].connections = Append(@, connection),
                !.optimal_design = Append(@, connection),
                !.total_cost = @ + connection.cost,
                !.total_cable_length = @ + connection.distance,
                !.fiber_connections =
                   IF connection.cable_type = "fiber" THEN @ + 1 ELSE @,
                !.copper_connections =
                   IF connection.cable_type = "fiber" THEN @ ELSE @ + 1]

\* The body of the if at lines 98-109: the candidate is taken.
Accept(st, connection) ==
  LET loc1 == connection.locations[1]
      loc2 == connection.locations[2]
      u == union_locations(st.parent, st.rank, loc1, loc2)
      l1 == [st.locations EXCEPT ![loc1].connections = Append(@, connection)]
      l2 == [l1 EXCEPT ![loc2].connections = Append(@, connection)]
  IN [st EXCEPT !.parent = u.parent,
                !.rank = u.rank,
                !.locations = l2,
                !.optimal_design = Append(@, connection),
                !.total_cost = @ + connection.cost,
                !.total_cable_length = @ + connection.distance,
                !.fiber_connections =
                   IF connection.cable_type = "fiber" THEN @ + 1 ELSE @,
                !.copper_connections =
                   IF connection.cable_type = "fiber" THEN @ ELSE @ + 1]

\* Mutant of ScanStep: the find_parent comparison of line 96 is left out.
ScanStepNoCycleTest(st, connection, budget) ==
  IF Affordable(st.total_cost, connection.cost, budget)
  THEN Accept(st, connection)
  ELSE st

\* Lines 94-109 for one candidate, on the record st of everything the loop
\* reads and writes.
ScanStep(st, connection, budget) ==
  LET loc1 == connection.locations[1]
      loc2 == connection.locations[2]
      looked == [st EXCEPT !.parent =
                   find_parent(find_parent(st.parent, loc1), loc2)]
  IN IF FindRoot(st.parent, loc1) /= FindRoot(st.parent, loc2)
        /\ Affordable(st.total_cost, connection.cost, budget)
     THEN Accept(looked, connection)
     ELSE looked

\* The dict returned at lines 111-118.
Design(st, budget) ==
  [optimal_connections |-> st.optimal_design,
   total_cost |-> st.total_cost,
   total_cable_length |-> st.total_cable_length,
   fiber_connections |-> st.fiber_connections,
   copper_connections |-> st.copper_connections,
   remaining_budget |-> budget - st.total_cost]

\* The loop's state as a record.
LoopState ==
  [parent |-> parent, rank |-> rank, locations |-> locations,
   optimal_design |-> optimal_design, total_cost |-> total_cost,
   total_cable_length |-> total_cable_length,
   fiber_connections |-> fiber_connections,
   copper_connections |-> copper_connections]

\* The for loop of lines 93-109 from position k of the sorted list to its end.
RECURSIVE FullScan(_, _, _, _)
FullScan(st, sorted, k, budget) ==
  IF k > Len(sorted) THEN st
  ELSE FullScan(ScanStep(st, sorted[k], budget), sorted, k + 1, budget)

\* ------------------------------------------------------------ actions
\* The caller's script, which bounds the runs explored: it registers the
\* locations and the candidates, then solves; right after a solve, and before
\* the next one, it may register a known name again or call union_locations
\* itself.
Building == nSolves = 0
Disturbing == caller = "solved" /\ nSolves < MaxSolves

Init ==
  /\ locations = <<>>
  /\ possible_connections = <<>>
  /\ parent = <<>>
  /\ rank = <<>>
  /\ total_budget \in Budgets
  /\ last_design = None
  /\ pc = "idle"
  /\ sorted_connections = <<>>
  /\ idx = 0
  /\ optimal_design = <<>>
  /\ total_cost = 0
  /\ total_cable_length = 0
  /\ fiber_connections = 0
  /\ copper_connections = 0
  /\ caller = "setup"
  /\ nSolves = 0

add_location(name, location_type, devices_count, coordinates) ==
  /\ pc = "idle"
  /\ IF name \in DOMAIN locations THEN Disturbing ELSE Building
  /\ locations' = Put(locations, name,
                      LocationRecord(name, location_type, devices_count,
                                     coordinates))
  /\ parent' = Put(parent, name, name)
  /\ rank' = Put(rank, name, 0)
  /\ caller' = "setup"
  /\ UNCHANGED <<possible_connections, total_budget, last_design, pc,
                 locals, nSolves>>

add_possible_connection(loc1, loc2, cable_type) ==
  /\ pc = "idle"
  /\ loc1 \in DOMAIN locations
  /\ loc2 \in DOMAIN locations
  /\ Building
  /\ Len(possible_connections) < MaxConnections
  /\ possible_connections' =
       Append(possible_connections,
              Connection(locations, loc1, loc2, cable_type))
  /\ caller' = "setup"
  /\ UNCHANGED <<locations, parent, rank, total_budget, last_design, pc,
                 locals, nSolves>>

call_union_locations(loc1, loc2) ==
  /\ pc = "idle"
  /\ loc1 \in DOMAIN parent
  /\ loc2 \in DOMAIN parent
  /\ Disturbing
  /\ LET u == union_locations(parent, rank, loc1, loc2)
     IN /\ parent' = u.parent
        /\ rank' = u.rank
  /\ caller' = "setup"
  /\ UNCHANGED <<locations, possible_connections, total_budget, last_design,
                 pc, locals, nSolves>>

design_begin ==
  /\ pc = "idle"
  /\ nSolves < MaxSolves
  /\ pc' = "loop"
  /\ sorted_connections' = SortByCost(possible_connections)
  /\ idx' = 1
  /\ optimal_design' = <<>>
  /\ total_cost' = 0
  /\ total_cable_length' = 0
  /\ fiber_connections' = 0
  /\ copper_connections' = 0
  /\ caller' = IF caller = "solved" THEN "resolving" ELSE "solving"
  /\ nSolves' = nSolves + 1
  /\ UNCHANGED <<sysvars, last_design>>

design_iterate ==
  /\ pc = "loop"
  /\ idx <= Len(sorted_connections)
  /\ LET st == ScanStep(LoopState, sorted_connections[idx], total_budget)
     IN /\ parent' = st.parent
        /\ rank' = st.rank
        /\ locations' = st.locations
        /\ optimal_design' = st.optimal_design
        /\ total_cost' = st.total_cost
        /\ total_cable_length' = st.total_cable_length
        /\ fiber_connections' = st.fiber_connections
        /\ copper_connections' = st.copper_connections
  /\ idx' = idx + 1
  /\ UNCHANGED <<possible_connections, total_budget, last_design, pc,
                 sorted_connections, caller, nSolves>>

design_return ==
  /\ pc = "loop"
  /\ idx > Len(sorted_connections)
  /\ last_design' = Design(LoopState, total_budget)
  /\ pc' = "idle"
  /\ sorted_connections' = <<>>
  /\ idx' = 0
  /\ optimal_design' = <<>>
  /\ total_cost' = 0
  /\ total_cable_length' = 0
  /\ fiber_connections' = 0
  /\ copper_connections' = 0
  /\ caller' = "solved"
  /\ UNCHANGED <<sysvars, nSolves>>

Next ==
  \/ \E name \in Names, t \in LocationTypes, d \in DeviceCounts,
        xy \in Coordinates : add_location(name, t, d, xy)
  \/ \E pair \in Pairs, cable_type \in CableTypes :
        add_possible_connection(pair[1], pair[2], cable_type)
  \/ \E pair \in Pairs \cup {<<n, n>> : n \in Names} :
        call_union_locations(pair[1], pair[2])
  \/ design_begin
  \/ design_iterate
  \/ design_return

Spec == Init /\ [][Next]_vars

\* ------------------------------------------ reference graph notions
\* Independent of the union-find: connectivity by closure over the links
\* conns[i], i \in S, on the vertex set V.
Adjacent(conns, S, a, b) ==
  \E i \in S : conns[i].locations \in {<<a, b>>, <<b, a>>}

RECURSIVE Grow(_, _, _, _)
Grow(conns, S, V, X) ==
  LET Y == X \cup {n \in V : \E m \in X : Adjacent(conns, S, m, n)}
  IN IF Y = X THEN X ELSE Grow(conns, S, V, Y)

Components(conns, S, V) == {Grow(conns, S, V, {n}) : n \in V}

\* A multigraph is a forest iff it has |V| - (number of components) edges.
IsForest(conns, S, V) ==
  Cardinality(S) = Cardinality(V) - Cardinality(Components(conns, S, V))

RECURSIVE SumOver(_, _, _)
SumOver(conns, S, field) ==
  IF S = {} THEN 0
  ELSE LET i == CHOOSE j \in S : TRUE
       IN conns[i][field] + SumOver(conns, S \ {i}, field)

Total(seq, field) == SumOver(seq, DOMAIN seq, field)
CountType(seq, t) == Cardinality({i \in DOMAIN seq : seq[i].cable_type = t})

\* The spanning forests of the candidate graph, and the least cost of one.
SpanningForests(conns, V) ==
  {S \in SUBSET DOMAIN conns :
     /\ IsForest(conns, S, V)
     /\ Components(conns, S, V) = Components(conns, DOMAIN conns, V)}

MSFCost(conns, V) ==
  LET costs == {SumOver(conns, S, "cost") : S \in SpanningForests(conns, V)}
  IN CHOOSE c \in costs : \A d \in costs : c <= d

Solved == caller = "solved"
Accepted == last_design.optimal_connections

\* ------------------------------------------------------------- claims
\* C1: the links accepted by one design_optimal_network call contain no
\* cycle: as an undirected graph over the locations they form a forest, at
\* every point of the loop and in the returned design.
C1_Forest ==
  /\ pc = "loop" =>
       IsForest(optimal_design, DOMAIN optimal_design, DOMAIN locations)
  /\ last_design /= None =>
       IsForest(Accepted, DOMAIN Accepted, DOMAIN locations)

\* A fresh solve over a triangle of candidates took two of them and turned
\* the third down although the budget would have paid for it.
C1_Witness ==
  /\ Solved /\ nSolves = 1
  /\ Len(possible_connections) = 3
  /\ Len(Accepted) = 2
  /\ {possible_connections[i].locations : i \in 1..3} = Pairs
  /\ last_design.remaining_budget >= Total(possible_connections, "cost")

\* C2: the running total_cost never exceeds the budget during the loop, and
\* the returned design has total_cost <= budget and
\* remaining_budget = budget - total_cost >= 0.
C2_Budget ==
  /\ pc = "loop" => total_cost <= total_budget
  /\ Solved =>
       /\ last_design.total_cost <= total_budget
       /\ last_design.remaining_budget = total_budget - last_design.total_cost
       /\ last_design.remaining_budget >= 0

\* The scenario of the specification: budget 500, A-B taken for 360, the two
\* dearer links of the triangle turned down for the budget.
C2_Witness ==
  /\ Solved
  /\ total_budget = 500
  /\ Len(possible_connections) = 3
  /\ {possible_connections[i].locations : i \in 1..3} = Pairs
  /\ Len(Accepted) = 1
  /\ last_design.total_cost = 360
  /\ last_design.remaining_budget = 140

\* C5 as stated: with budget 0 the design has zero accepted links and
\* remaining_budget = 0.
C5_ZeroBudgetNoLinks ==
  (Solved /\ total_budget = 0) =>
     /\ Len(Accepted) = 0
     /\ last_design.remaining_budget = 0

\* C5 as amended: with budget 0 no candidate of positive cost is accepted:
\* every accepted link costs 0 (so none is accepted when every candidate has
\* a positive cost), total_cost = 0 and remaining_budget = 0.
C5_ZeroBudgetOnlyFree ==
  (Solved /\ total_budget = 0) =>
     /\ \A i \in DOMAIN Accepted : Accepted[i].cost = 0
     /\ (\A i \in DOMAIN possible_connections :
            possible_connections[i].cost > 0) => Len(Accepted) = 0
     /\ last_design.total_cost = 0
     /\ last_design.remaining_budget = 0

\* Budget 0: a link between two locations at the same coordinates was taken,
\* a link of positive cost was not.
C5_Witness ==
  /\ Solved /\ nSolves = 1
  /\ total_budget = 0
  /\ Len(Accepted) = 1
  /\ \E i \in DOMAIN possible_connections : possible_connections[i].cost > 0

\* C6: the accepted links are in non-decreasing order of cost, and links of
\* equal cost are accepted in the order they were inserted in
\* possible_connections: the accepted sequence embeds in possible_connections
\* by a map g with, for i < j, cost strictly smaller at i, or equal and
\* g[i] < g[j].
OrderedByCostThenInsertion(acc, conns) ==
  \E g \in [DOMAIN acc -> DOMAIN conns] :
     /\ \A i \in DOMAIN acc : acc[i] = conns[g[i]]
     /\ \A i, j \in DOMAIN acc :
          i < j => \/ acc[i].cost < acc[j].cost
                   \/ acc[i].cost = acc[j].cost /\ g[i] < g[j]

C6_CostOrder ==
  /\ pc = "loop" =>
       OrderedByCostThenInsertion(optimal_design, possible_connections)
  /\ Solved => OrderedByCostThenInsertion(Accepted, possible_connections)

\* Two different links of equal cost were accepted, and the candidate
\* inserted first costs more than both.
C6_Witness ==
  /\ Solved /\ nSolves = 1
  /\ Len(possible_connections) = 3
  /\ Len(Accepted) = 2
  /\ Accepted[1].cost = Accepted[2].cost
  /\ Accepted[1] /= Accepted[2]
  /\ possible_connections[1].cost > Accepted[2].cost

\* C3: a design_optimal_network call made right after another, nothing else
\* called in between, returns the design the first one returned.
C3_Repeatable ==
  [][(caller = "resolving" /\ pc = "loop" /\ pc' = "idle")
       => last_design' = last_design]_vars

\* C4: on a freshly built system whose budget covers the sum of all
\* candidate costs, total_cost is the cost of a minimum spanning forest of
\* the candidate graph and the number of accepted links is the number of
\* locations minus the number of connected components of that graph.
C4_Optimal ==
  (/\ Solved /\ nSolves = 1
   /\ total_budget >= Total(possible_connections, "cost")) =>
     /\ last_design.total_cost =
          MSFCost(possible_connections, DOMAIN locations)
     /\ Len(Accepted) =
          Cardinality(DOMAIN locations)
          - Cardinality(Components(possible_connections,
                                   DOMAIN possible_connections,
                                   DOMAIN locations))

\* A triangle of three different costs, the dearest inserted first, and the
\* two cheapest links accepted.
C4_Witness ==
  /\ Solved /\ nSolves = 1
  /\ total_budget >= Total(possible_connections, "cost")
  /\ Len(possible_connections) = 3
  /\ {possible_connections[i].locations : i \in 1..3} = Pairs
  /\ possible_connections[1].cost > possible_connections[2].cost
  /\ possible_connections[2].cost > possible_connections[3].cost
  /\ possible_connections[3].cost > 0
  /\ Len(Accepted) = 2

\* C7: add_location with a name already registered leaves the location
\* record and the disjoint-set entries as they were.
C7_DuplicateRejected ==
  [][\A name \in DOMAIN locations, t \in LocationTypes, d \in DeviceCounts,
        xy \in Coordinates :
        add_location(name, t, d, xy)
          => UNCHANGED <<locations, parent, rank>>]_vars

\* C8: the statistics are sums and counts over the accepted links, during
\* the loop and in the returned design, and a pass of the loop that accepts a
\* link appends it once to the connections of each of its two endpoints and
\* changes no other location; a pass that accepts none changes no location.
Aggregates(acc, cost, length, fiber, copper) ==
  /\ cost = Total(acc, "cost")
  /\ length = Total(acc, "distance")
  /\ fiber = CountType(acc, "fiber")
  /\ copper = CountType(acc, "copper")
  /\ fiber + copper = Len(acc)

RecordedAtEndpoints ==
  LET c == sorted_connections[idx]
  IN IF optimal_design' = Append(optimal_design, c)
     THEN /\ c.locations[1] /= c.locations[2]
          /\ \A n \in DOMAIN locations :
               locations'[n] =
                 IF n \in {c.locations[1], c.locations[2]}
                 THEN [locations[n] EXCEPT
                         !.connections = Append(@, c)]
                 ELSE locations[n]
     ELSE /\ optimal_design' = optimal_design
          /\ locations' = locations

C8_Aggregation ==
  [][/\ pc' = "loop" =>
          Aggregates(optimal_design', total_cost', total_cable_length',
                     fiber_connections', copper_connections')
     /\ (pc = "loop" /\ pc' = "loop") => RecordedAtEndpoints
     /\ (pc = "loop" /\ pc' = "idle") =>
          /\ last_design'.optimal_connections = optimal_design
          /\ Aggregates(last_design'.optimal_connections,
                        last_design'.total_cost,
                        last_design'.total_cable_length,
                        last_design'.fiber_connections,
                        last_design'.copper_connections)
          /\ last_design'.remaining_budget =
               total_budget - Total(optimal_design, "cost")]_vars

\* A design with one fiber and one copper link that meet in one location,
\* which holds both in its connections.
C8_Witness ==
  /\ Solved /\ nSolves = 1
  /\ last_design.fiber_connections = 1
  /\ last_design.copper_connections = 1
  /\ \E n \in DOMAIN locations : locations[n].connections = Accepted

\* C9: union_locations(a, b) on two locations that share a representative
\* changes no rank, no representative and not the partition.
SameSet(par, a, b) == FindRoot(par, a) = FindRoot(par, b)

C9_UnionNoOp ==
  [][\A a, b \in DOMAIN parent :
        (SameSet(parent, a, b) /\ call_union_locations(a, b)) =>
           /\ rank' = rank
           /\ \A n \in DOMAIN parent :
                FindRoot(parent', n) = FindRoot(parent, n)]_vars

\* C10.  The early-exit variant of the loop: it stops at the first
\* candidate that joins two sets and does not fit the budget.
RECURSIVE EarlyExitScan(_, _, _, _)
EarlyExitScan(st, sorted, k, budget) ==
  IF k > Len(sorted) THEN st
  ELSE LET c == sorted[k]
       IN IF /\ ~SameSet(st.parent, c.locations[1], c.locations[2])
             /\ st.total_cost + c.cost > budget
          THEN st
          ELSE EarlyExitScan(ScanStep(st, c, budget), sorted, k + 1, budget)

\* A system built from nothing: every name of V registered, then the
\* candidates of list added.
FreshState(coords, list) ==
  LET locs == [n \in DOMAIN coords |->
                 LocationRecord(n, "Office", 5, coords[n])]
  IN [parent |-> [n \in DOMAIN coords |-> n],
      rank |-> [n \in DOMAIN coords |-> 0],
      locations |-> locs,
      optimal_design |-> <<>>, total_cost |-> 0, total_cable_length |-> 0,
      fiber_connections |-> 0, copper_connections |-> 0,
      candidates |-> [i \in DOMAIN list |->
                        Connection(locs, list[i][1][1], list[i][1][2],
                                   list[i][2])]]

Lists ==
  UNION {[1..n -> Pairs \X CableTypes] : n \in 0..MaxConnections}

\* C10 as stated: there is an input (coordinates of the locations, a list
\* of candidates, and a budget: the system's own or any other) on which the
\* full scan and the early-exit variant return different designs.
C10_FullScanNeeded ==
  \E coords \in [Names -> Coordinates], list \in Lists,
     budget \in Budgets \cup {total_budget} :
     LET st == FreshState(coords, list)
         sorted == SortByCost(st.candidates)
     IN Design(FullScan(st, sorted, 1, budget), budget)
          /= Design(EarlyExitScan(st, sorted, 1, budget), budget)

\* C10 as amended: from every point of every solve the full scan returns
\* the design the early-exit variant returns; once a candidate that joins
\* two sets is skipped for the budget, no later candidate is accepted.
C10_EarlyExitSame ==
  pc = "loop" =>
    Design(FullScan(LoopState, sorted_connections, idx, total_budget),
           total_budget)
      = Design(EarlyExitScan(LoopState, sorted_connections, idx,
                             total_budget), total_budget)

\* The loop stands at a candidate it skips for the budget alone, after
\* having accepted one, with a later candidate that also joins two sets.
C10_Witness ==
  /\ pc = "loop"
  /\ idx < Len(sorted_connections)
  /\ Len(optimal_design) >= 1
  /\ LET c == sorted_connections[idx]
         d == sorted_connections[idx + 1]
     IN /\ ~SameSet(parent, c.locations[1], c.locations[2])
        /\ ~Affordable(total_cost, c.cost, total_budget)
        /\ ~SameSet(parent, d.locations[1], d.locations[2])

====
